---------------------------- MODULE Spec2Model ----------------------------
(***************************************************************************)
(* Model of the Shopify metafield writer: the value transformer            *)
(* (MetafieldTypeTransformer), the single-field writer                     *)
(* (SafeMetafieldWriter.write_product_metafield) and the batch writer      *)
(* (BatchMetafieldWriter.write_product_metafields_batch).                  *)
(*                                                                         *)
(* Python strings are TLA+ strings (TLC evaluates Len, SubSeq, Head, Tail  *)
(* and \o on them).  Every other Python value is a record tagged by t.     *)
(* A finite float is kept as its decimal expansion (sign, integer part,    *)
(* fraction digits without trailing zeros); this is exact for str()/repr() *)
(* and int() as long as the number has at most 15 significant digits and   *)
(* its repr uses no exponent, which holds for every value drawn here.      *)
(***************************************************************************)
EXTENDS Integers, Sequences, FiniteSets, TLC

VARIABLES
    definition_cache,   \* SafeMetafieldWriter._definition_cache, by cache key "namespace:key"
    pc,                 \* position of the call in progress
    call,               \* arguments of the call in progress
    determined_type,    \* local of write_product_metafield: the type the write uses
    definition,         \* local: what _get_cached_definition returned
    existing,           \* local: what get_product_metafield returned
    transformed_value,  \* local: the transformer's result
    processed,          \* batch: processed_metafields
    idx,                \* batch: index of the field the loop is at
    sent,               \* mutations handed to graphql_request by this call, in order
    response,           \* what the transport answered to the mutation
    outcome,            \* how the call ended: a returned value or a raised exception
    lookups,            \* cache keys whose definition this call asked the shop for
    prev,               \* cause and exception class of the previous call's failure
    shop,               \* what the shop held for the (namespace, key) just resolved
    tv, tt, tr1, tr2,   \* transformer harness: value, type, first and second result
    tpc, tkey, tdef,    \* threads in _get_cached_definition: position, cache key, fetched
    clock,              \* time.time(), in ticks
    lock,               \* ShopifyRateLimiter.lock: the thread holding it, or 0
    last_request_time,  \* ShopifyRateLimiter.last_request_time
    request_times,      \* ShopifyRateLimiter.request_times
    lpc,                \* position of each thread in wait_if_needed
    current_time,       \* local current_time of the thread holding the lock
    wake,               \* end of the time.sleep in progress
    lcalls,             \* calls of wait_if_needed each thread has made
    admitted            \* every time recorded by wait_if_needed, in order

writerVars == <<definition_cache, pc, call, determined_type, definition, existing,
                transformed_value, processed, idx, sent, response, outcome,
                lookups, prev, shop>>

harnessVars == <<tv, tt, tr1, tr2>>

threadVars == <<tpc, tkey, tdef>>

limiterVars == <<clock, lock, last_request_time, request_times, lpc, current_time,
                 wake, lcalls, admitted>>

vars == <<writerVars, harnessVars, threadVars, limiterVars>>

(***************************************************************************)
(* Python values                                                           *)
(***************************************************************************)
None == [t |-> "none"]
PyBool(b) == [t |-> "bool", b |-> b]
PyInt(n) == [t |-> "int", n |-> n]
PyStr(s) == [t |-> "str", s |-> s]
PyList(items) == [t |-> "list", items |-> items]
PyDict(pairs) == [t |-> "dict", pairs |-> pairs]
PyFloat(neg, ip, fr) == [t |-> "float", k |-> "fin", neg |-> neg, ip |-> ip, fr |-> fr]
PyInf(neg) == [t |-> "float", k |-> "inf", neg |-> neg, ip |-> 0, fr |-> ""]
PyNaN == [t |-> "float", k |-> "nan", neg |-> FALSE, ip |-> 0, fr |-> ""]

\* Results of operations that may raise: exc = "" means no exception.
OkS(s) == [exc |-> "", s |-> s]
RaiseS(e) == [exc |-> e, s |-> ""]
NotRun == [exc |-> "-", s |-> ""]
OkV(v) == [exc |-> "", val |-> v]
RaiseV(e) == [exc |-> e, val |-> None]

(***************************************************************************)
(* Characters and strings                                                  *)
(***************************************************************************)
DigitChars == "0123456789"
UpperChars == "ABCDEFGHIJKLMNOPQRSTUVWXYZ"
LowerChars == "abcdefghijklmnopqrstuvwxyz"

Ch(s, i) == SubSeq(s, i, i)
From(s, i) == SubSeq(s, i, Len(s))

IsDigit(c) == \E i \in 1..10 : Ch(DigitChars, i) = c
DigitVal(c) == (CHOOSE i \in 1..10 : Ch(DigitChars, i) = c) - 1

StartsWith(s, p) == Len(s) >= Len(p) /\ SubSeq(s, 1, Len(p)) = p

\* First index i >= from with s[i..] starting with p, or 0.
RECURSIVE Find(_, _, _)
Find(s, p, from) ==
    IF from + Len(p) - 1 > Len(s) THEN 0
    ELSE IF SubSeq(s, from, from + Len(p) - 1) = p THEN from
    ELSE Find(s, p, from + 1)

\* str.replace(old, new): every non-overlapping occurrence, left to right.
RECURSIVE Replace(_, _, _)
Replace(s, old, new) ==
    LET i == Find(s, old, 1) IN
    IF i = 0 THEN s
    ELSE SubSeq(s, 1, i - 1) \o new \o Replace(From(s, i + Len(old)), old, new)

LowerCh(c) ==
    IF \E i \in 1..26 : Ch(UpperChars, i) = c
    THEN Ch(LowerChars, CHOOSE i \in 1..26 : Ch(UpperChars, i) = c)
    ELSE c

\* str.lower()
RECURSIVE Lower(_)
Lower(s) == IF s = "" THEN "" ELSE LowerCh(Head(s)) \o Lower(Tail(s))

\* str.strip() on the whitespace of the modelled alphabet (the space)
RECURSIVE Strip(_)
Strip(s) ==
    IF s = "" THEN ""
    ELSE IF Head(s) = " " THEN Strip(Tail(s))
    ELSE IF Ch(s, Len(s)) = " " THEN Strip(SubSeq(s, 1, Len(s) - 1))
    ELSE s

RECURSIVE AllDigits(_)
AllDigits(s) == s = "" \/ (IsDigit(Head(s)) /\ AllDigits(Tail(s)))

RECURSIVE StripZeros(_)
StripZeros(s) ==
    IF s # "" /\ Ch(s, Len(s)) = "0" THEN StripZeros(SubSeq(s, 1, Len(s) - 1)) ELSE s

(***************************************************************************)
(* Numbers: int.__repr__, float.__repr__, float(), int(), bool()           *)
(***************************************************************************)
RECURSIVE NatStr(_)
NatStr(n) ==
    IF n < 10 THEN Ch(DigitChars, n + 1)
    ELSE NatStr(n \div 10) \o Ch(DigitChars, (n % 10) + 1)

IntStr(n) == IF n < 0 THEN "-" \o NatStr(-n) ELSE NatStr(n)

RECURSIVE DigitsVal(_)
DigitsVal(s) ==
    IF s = "" THEN 0
    ELSE DigitsVal(SubSeq(s, 1, Len(s) - 1)) * 10 + DigitVal(Ch(s, Len(s)))

FloatRepr(f) ==
    CASE f.k = "nan" -> "nan"
      [] f.k = "inf" -> (IF f.neg THEN "-inf" ELSE "inf")
      [] OTHER -> (IF f.neg THEN "-" ELSE "") \o NatStr(f.ip) \o "."
                  \o (IF f.fr = "" THEN "0" ELSE f.fr)

\* float(s) for a string: optional blanks and sign, then inf / infinity / nan in any
\* case, or digits with an optional fraction.  (Exponents and digit-group underscores
\* are outside the modelled alphabet.)
ParseFloat(s) ==
    LET b == Strip(s)
        signed == b # "" /\ Head(b) \in {"+", "-"}
        neg == b # "" /\ Head(b) = "-"
        u == IF signed THEN Tail(b) ELSE b
        l == Lower(u)
        dot == Find(u, ".", 1)
        ipS == IF dot = 0 THEN u ELSE SubSeq(u, 1, dot - 1)
        frS == IF dot = 0 THEN "" ELSE From(u, dot + 1)
    IN  IF l \in {"inf", "infinity"} THEN OkV(PyInf(neg))
        ELSE IF l = "nan" THEN OkV(PyNaN)
        ELSE IF AllDigits(ipS) /\ AllDigits(frS) /\ (ipS # "" \/ frS # "")
             THEN OkV(PyFloat(neg, DigitsVal(ipS), StripZeros(frS)))
        ELSE RaiseV("ValueError")

\* float(v)
py_float(v) ==
    CASE v.t = "bool" -> OkV(PyFloat(FALSE, IF v.b THEN 1 ELSE 0, ""))
      [] v.t = "int" -> OkV(PyFloat(v.n < 0, IF v.n < 0 THEN -v.n ELSE v.n, ""))
      [] v.t = "float" -> OkV(v)
      [] v.t = "str" -> ParseFloat(v.s)
      [] OTHER -> RaiseV("TypeError")

\* int(v) for a value that is not a string (the code never calls int on a string)
py_int(v) ==
    CASE v.t = "bool" -> OkV(PyInt(IF v.b THEN 1 ELSE 0))
      [] v.t = "int" -> OkV(v)
      [] v.t = "float" ->
            (CASE v.k = "nan" -> RaiseV("ValueError")
               [] v.k = "inf" -> RaiseV("OverflowError")
               [] OTHER -> OkV(PyInt(IF v.neg THEN -v.ip ELSE v.ip)))
      [] OTHER -> RaiseV("TypeError")

\* bool(v): truthiness
py_bool(v) ==
    CASE v.t = "none" -> FALSE
      [] v.t = "bool" -> v.b
      [] v.t = "int" -> v.n # 0
      [] v.t = "float" -> ~(v.k = "fin" /\ v.ip = 0 /\ v.fr = "")
      [] v.t = "str" -> v.s # ""
      [] v.t = "list" -> v.items # <<>>
      [] v.t = "dict" -> v.pairs # <<>>

(***************************************************************************)
(* str(v) and repr(v)                                                      *)
(***************************************************************************)
RECURSIVE EscapeWith(_, _)
\* s with every backslash and every occurrence of the character q backslash-escaped
EscapeWith(s, q) ==
    IF s = "" THEN ""
    ELSE (IF Head(s) \in {"\\", q} THEN "\\" \o Head(s) ELSE Head(s))
         \o EscapeWith(Tail(s), q)

\* str.__repr__: single quotes, unless the string holds a ' and no "
StrRepr(s) ==
    IF Find(s, "'", 1) # 0 /\ Find(s, "\"", 1) = 0
    THEN "\"" \o EscapeWith(s, "\"") \o "\""
    ELSE "'" \o EscapeWith(s, "'") \o "'"

RECURSIVE py_repr(_), ReprItems(_), ReprPairs(_)
py_repr(v) ==
    CASE v.t = "none" -> "None"
      [] v.t = "bool" -> (IF v.b THEN "True" ELSE "False")
      [] v.t = "int" -> IntStr(v.n)
      [] v.t = "float" -> FloatRepr(v)
      [] v.t = "str" -> StrRepr(v.s)
      [] v.t = "list" -> "[" \o ReprItems(v.items) \o "]"
      [] v.t = "dict" -> "{" \o ReprPairs(v.pairs) \o "}"

ReprItems(items) ==
    IF items = <<>> THEN ""
    ELSE py_repr(Head(items))
         \o (IF Len(items) > 1 THEN ", " ELSE "") \o ReprItems(Tail(items))

ReprPairs(pairs) ==
    IF pairs = <<>> THEN ""
    ELSE py_repr(Head(pairs).k) \o ": " \o py_repr(Head(pairs).v)
         \o (IF Len(pairs) > 1 THEN ", " ELSE "") \o ReprPairs(Tail(pairs))

\* str(v)
py_str(v) == IF v.t = "str" THEN v.s ELSE py_repr(v)

(***************************************************************************)
(* json.dumps (default separators) and json.loads                          *)
(***************************************************************************)
\* A dict key as json.dumps writes it (keys here are str, int, float, bool or None).
KeyStr(k) ==
    CASE k.t = "str" -> k.s
      [] k.t = "none" -> "null"
      [] k.t = "bool" -> (IF k.b THEN "true" ELSE "false")
      [] k.t = "int" -> IntStr(k.n)
      [] k.t = "float" -> FloatRepr(k)

JsonFloat(f) ==
    CASE f.k = "nan" -> "NaN"
      [] f.k = "inf" -> (IF f.neg THEN "-Infinity" ELSE "Infinity")
      [] OTHER -> FloatRepr(f)

RECURSIVE json_dumps(_), DumpItems(_), DumpPairs(_)
json_dumps(v) ==
    CASE v.t = "none" -> "null"
      [] v.t = "bool" -> (IF v.b THEN "true" ELSE "false")
      [] v.t = "int" -> IntStr(v.n)
      [] v.t = "float" -> JsonFloat(v)
      [] v.t = "str" -> "\"" \o EscapeWith(v.s, "\"") \o "\""
      [] v.t = "list" -> "[" \o DumpItems(v.items) \o "]"
      [] v.t = "dict" -> "{" \o DumpPairs(v.pairs) \o "}"

DumpItems(items) ==
    IF items = <<>> THEN ""
    ELSE json_dumps(Head(items))
         \o (IF Len(items) > 1 THEN ", " ELSE "") \o DumpItems(Tail(items))

DumpPairs(pairs) ==
    IF pairs = <<>> THEN ""
    ELSE "\"" \o EscapeWith(KeyStr(Head(pairs).k), "\"") \o "\": "
         \o json_dumps(Head(pairs).v)
         \o (IF Len(pairs) > 1 THEN ", " ELSE "") \o DumpPairs(Tail(pairs))

\* The decoder.  A parse step answers [ok, val, end]: end is the index after the value.
ParseFail == [ok |-> FALSE, val |-> None, end |-> 0]
Parsed(v, e) == [ok |-> TRUE, val |-> v, end |-> e]

RECURSIVE SkipWs(_, _)
SkipWs(s, i) == IF i <= Len(s) /\ Ch(s, i) = " " THEN SkipWs(s, i + 1) ELSE i

RECURSIVE SkipDigits(_, _)
SkipDigits(s, i) == IF i <= Len(s) /\ IsDigit(Ch(s, i)) THEN SkipDigits(s, i + 1) ELSE i

\* i is the index after the opening quote; the escapes \" \\ \/ are decoded (the
\* others need characters outside the modelled alphabet).
RECURSIVE ScanString(_, _, _)
ScanString(s, i, acc) ==
    IF i > Len(s) THEN [ok |-> FALSE, s |-> "", end |-> 0]
    ELSE IF Ch(s, i) = "\"" THEN [ok |-> TRUE, s |-> acc, end |-> i + 1]
    ELSE IF Ch(s, i) = "\\"
         THEN IF i + 1 <= Len(s) /\ Ch(s, i + 1) \in {"\"", "\\", "/"}
              THEN ScanString(s, i + 2, acc \o Ch(s, i + 1))
              ELSE [ok |-> FALSE, s |-> "", end |-> 0]
    ELSE ScanString(s, i + 1, acc \o Ch(s, i))

\* NUMBER_RE: -?(0|[1-9]\d*)(\.\d+)? ; with a fraction the value is a float
ScanNumber(s, i) ==
    LET neg == Ch(s, i) = "-"
        a == IF neg THEN i + 1 ELSE i
        b == IF a <= Len(s) /\ Ch(s, a) = "0" THEN a + 1 ELSE SkipDigits(s, a)
        hasFrac == b + 1 <= Len(s) /\ Ch(s, b) = "." /\ IsDigit(Ch(s, b + 1))
        c == IF hasFrac THEN SkipDigits(s, b + 1) ELSE b
        n == DigitsVal(SubSeq(s, a, b - 1))
    IN  IF b = a THEN ParseFail
        ELSE IF hasFrac
             THEN Parsed(PyFloat(neg, n, StripZeros(SubSeq(s, b + 1, c - 1))), c)
        ELSE Parsed(PyInt(IF neg THEN -n ELSE n), c)

ScanLiteral(s, i, word, v) ==
    IF i + Len(word) - 1 <= Len(s) /\ SubSeq(s, i, i + Len(word) - 1) = word
    THEN Parsed(v, i + Len(word)) ELSE ParseFail

\* dict[k] = v: an existing key keeps its position and takes the new value
DictSet(pairs, k, v) ==
    IF \E j \in 1..Len(pairs) : pairs[j].k = k
    THEN [j \in 1..Len(pairs) |-> IF pairs[j].k = k THEN [k |-> k, v |-> v] ELSE pairs[j]]
    ELSE Append(pairs, [k |-> k, v |-> v])

RECURSIVE ParseValue(_, _), ParseArray(_, _, _), ParseObject(_, _, _)
ParseValue(s, i) ==
    IF i > Len(s) THEN ParseFail
    ELSE LET c == Ch(s, i) IN
      CASE c = "\"" ->
             (LET r == ScanString(s, i + 1, "") IN
              IF r.ok THEN Parsed(PyStr(r.s), r.end) ELSE ParseFail)
        [] c = "{" ->
             (LET j == SkipWs(s, i + 1) IN
              IF j <= Len(s) /\ Ch(s, j) = "}" THEN Parsed(PyDict(<<>>), j + 1)
              ELSE ParseObject(s, j, <<>>))
        [] c = "[" ->
             (LET j == SkipWs(s, i + 1) IN
              IF j <= Len(s) /\ Ch(s, j) = "]" THEN Parsed(PyList(<<>>), j + 1)
              ELSE ParseArray(s, j, <<>>))
        [] c = "n" -> ScanLiteral(s, i, "null", None)
        [] c = "t" -> ScanLiteral(s, i, "true", PyBool(TRUE))
        [] c = "f" -> ScanLiteral(s, i, "false", PyBool(FALSE))
        [] c = "N" -> ScanLiteral(s, i, "NaN", PyNaN)
        [] c = "I" -> ScanLiteral(s, i, "Infinity", PyInf(FALSE))
        [] OTHER ->
             (LET r == ScanNumber(s, i) IN
              IF r.ok THEN r ELSE ScanLiteral(s, i, "-Infinity", PyInf(TRUE)))

ParseArray(s, i, acc) ==
    LET r == ParseValue(s, i) IN
    IF ~r.ok THEN ParseFail
    ELSE LET j == SkipWs(s, r.end)
             acc2 == Append(acc, r.val)
         IN  IF j > Len(s) THEN ParseFail
             ELSE IF Ch(s, j) = "]" THEN Parsed(PyList(acc2), j + 1)
             ELSE IF Ch(s, j) = "," THEN ParseArray(s, SkipWs(s, j + 1), acc2)
             ELSE ParseFail

ParseObject(s, i, acc) ==
    IF i > Len(s) \/ Ch(s, i) # "\"" THEN ParseFail
    ELSE LET k == ScanString(s, i + 1, "") IN
    IF ~k.ok THEN ParseFail
    ELSE LET j == SkipWs(s, k.end) IN
    IF j > Len(s) \/ Ch(s, j) # ":" THEN ParseFail
    ELSE LET r == ParseValue(s, SkipWs(s, j + 1)) IN
    IF ~r.ok THEN ParseFail
    ELSE LET m == SkipWs(s, r.end)
             acc2 == DictSet(acc, PyStr(k.s), r.val)
         IN  IF m > Len(s) THEN ParseFail
             ELSE IF Ch(s, m) = "}" THEN Parsed(PyDict(acc2), m + 1)
             ELSE IF Ch(s, m) = "," THEN ParseObject(s, SkipWs(s, m + 1), acc2)
             ELSE ParseFail

\* json.loads(s): one value, blanks allowed around it, nothing after it
json_loads(s) ==
    LET r == ParseValue(s, SkipWs(s, 1)) IN
    IF r.ok /\ SkipWs(s, r.end) = Len(s) + 1 THEN OkV(r.val)
    ELSE RaiseV("JSONDecodeError")

(***************************************************************************)
(* MetafieldTypeTransformer                                                *)
(***************************************************************************)
\* What "for item in value" iterates over; int, float, bool and None are not iterable.
Iterable(v) == v.t \in {"list", "str", "dict"}
IterItems(v) ==
    CASE v.t = "list" -> v.items
      [] v.t = "str" -> [i \in 1..Len(v.s) |-> PyStr(Ch(v.s, i))]
      [] v.t = "dict" -> [i \in 1..Len(v.pairs) |-> v.pairs[i].k]

\* The string branch of boolean: value.lower() if it is "true"/"false", else str(bool(value))
BooleanOfString(s) ==
    IF Lower(s) \in {"true", "false"} THEN Lower(s)
    ELSE py_str(PyBool(py_bool(PyStr(s))))

\* The string branch of number_integer: int(float(value)), ValueError and TypeError
\* caught and raised again as ValueError
IntegerOfString(s) ==
    LET f == ParseFloat(s)
        n == py_int(f.val)
    IN  IF f.exc # "" THEN RaiseS("ValueError")
        ELSE IF n.exc = "" THEN OkS(IntStr(n.val.n))
        ELSE IF n.exc \in {"ValueError", "TypeError"} THEN RaiseS("ValueError")
        ELSE RaiseS(n.exc)

\* The string branch of json and of dimension/volume/weight: loads, then dumps
JsonOfString(s) ==
    LET p == json_loads(s) IN
    IF p.exc = "" THEN OkS(json_dumps(p.val)) ELSE RaiseS("ValueError")

RECURSIVE transform_value(_, _), transform_list_value(_, _), TransformItems(_, _, _)
transform_value(value, metafield_type) ==
    IF StartsWith(metafield_type, "list.")
    THEN transform_list_value(value, metafield_type)
    ELSE IF metafield_type = "json"
    THEN IF value.t \in {"dict", "list"} THEN OkS(json_dumps(value))
         ELSE IF value.t = "str" THEN JsonOfString(value.s)
         ELSE OkS(json_dumps(value))
    ELSE IF metafield_type = "number_integer"
    THEN IF value.t = "str" THEN IntegerOfString(value.s)
         ELSE LET n == py_int(value) IN
              IF n.exc = "" THEN OkS(IntStr(n.val.n)) ELSE RaiseS(n.exc)
    ELSE IF metafield_type = "number_decimal"
    THEN LET f == py_float(value) IN
         IF f.exc = "" THEN OkS(FloatRepr(f.val))
         ELSE IF value.t = "str" THEN RaiseS("ValueError")
         ELSE RaiseS(f.exc)
    ELSE IF metafield_type = "boolean"
    THEN IF value.t = "bool" THEN OkS(Lower(py_str(value)))
         ELSE IF value.t = "str" THEN OkS(BooleanOfString(value.s))
         ELSE OkS(Lower(py_str(PyBool(py_bool(value)))))
    ELSE IF metafield_type \in {"dimension", "volume", "weight"}
    THEN IF value.t = "dict" THEN OkS(json_dumps(value))
         ELSE IF value.t = "str" THEN JsonOfString(value.s)
         ELSE RaiseS("ValueError")
    ELSE OkS(py_str(value))

\* The loop of _transform_list_value: the first item that raises ends it
TransformItems(items, base_type, acc) ==
    IF items = <<>> THEN OkS(json_dumps(PyList(acc)))
    ELSE LET r == transform_value(Head(items), base_type) IN
         IF r.exc # "" THEN r
         ELSE TransformItems(Tail(items), base_type, Append(acc, PyStr(r.s)))

\* "Ensure value is a list": what the loop is run over
ListOf(value) ==
    IF value.t = "list" THEN value
    ELSE IF value.t = "str"
         THEN LET p == json_loads(value.s) IN
              IF p.exc = "" THEN p.val ELSE PyList(<<value>>)
    ELSE PyList(<<value>>)

transform_list_value(value, list_type) ==
    LET lst == ListOf(value)
        base_type == Replace(list_type, "list.", "")
    IN  IF ~Iterable(lst) THEN RaiseS("TypeError")
        ELSE TransformItems(IterItems(lst), base_type, <<>>)

(***************************************************************************)
(* The shop as the writer sees it: lookup answers and mutation responses   *)
(***************************************************************************)
NoType == ""
Def(t) == [present |-> TRUE, type |-> t]
NoDefinition == [present |-> FALSE, type |-> NoType]
NoMetafield == [present |-> FALSE, type |-> NoType]

Namespaces == {"custom"}
KeyNames == {"count", "flag"}
WriterTypes == {"number_integer", "boolean"}

\* f"{namespace}:{key}"
cache_key(namespace, key) == namespace \o ":" \o key
CacheKeys == {cache_key(n, k) : n \in Namespaces, k \in KeyNames}

\* What a lookup query meets: a transport or protocol fault, no such object, or one
LookupAnswers ==
    {[kind |-> "fault", type |-> NoType], [kind |-> "absent", type |-> NoType]}
    \cup {[kind |-> "found", type |-> t] : t \in WriterTypes}

\* ShopifyClient.get_product_metafield_definition: the definition, or None when
\* there is none or the query raised
get_product_metafield_definition(answer) ==
    IF answer.kind = "found" THEN Def(answer.type) ELSE NoDefinition

\* ShopifyClient.get_product_metafield: the metafield, or None likewise
get_product_metafield(answer) ==
    IF answer.kind = "found" THEN [present |-> TRUE, type |-> answer.type]
    ELSE NoMetafield

KV(k, v) == [k |-> PyStr(k), v |-> v]
UserError1 ==
    PyDict(<<KV("field", PyList(<<PyStr("metafields"), PyStr("0"), PyStr("value")>>)),
             KV("message", PyStr("Value is invalid"))>>)
UserError2 == PyDict(<<KV("message", PyStr("Access denied"))>>)
ProductPayload == PyDict(<<KV("id", PyStr("P1"))>>)

UserErrorLists ==
    {<<>>, <<UserError1>>, <<UserError2>>, <<UserError1, UserError2>>,
     <<UserError2, UserError1>>}

\* What graphql_request does with the mutation: raise, or return the data payload
Responses ==
    {[kind |-> "fault", text |-> "GraphQL errors: throttled", data |-> None]}
    \cup {[kind |-> "data", text |-> "",
           data |-> PyDict(<<KV("productUpdate",
                                PyDict(<<KV("product", ProductPayload),
                                         KV("userErrors", PyList(ue))>>))>>)] :
          ue \in UserErrorLists}
    \cup {[kind |-> "data", text |-> "",
           data |-> PyDict(<<KV("productUpdate",
                                PyDict(<<KV("product", ProductPayload)>>))>>)],
          [kind |-> "data", text |-> "", data |-> PyDict(<<>>)],
          [kind |-> "data", text |-> "",
           data |-> PyDict(<<KV("productUpdate", None)>>)]}

NoResponse == [kind |-> "none", text |-> "", data |-> None]

\* The shop at the moment a type is resolved: what it answers (or would answer) to
\* the definition query and to the product-metafield query for the field's
\* namespace and key, and which of the two queries the writer made.
Shop(defAns, exAns, asked_definition, asked_metafield) ==
    [definition |-> defAns, metafield |-> exAns,
     asked_definition |-> asked_definition, asked_metafield |-> asked_metafield]
NoShop == Shop([kind |-> "none", type |-> NoType], [kind |-> "none", type |-> NoType],
               FALSE, FALSE)

(***************************************************************************)
(* Outcomes of a call                                                      *)
(***************************************************************************)
\* cause is what made the call fail: "resolve", "transform", "rejected" (user
\* errors in the response) or "transport" (the mutation request raised, or its
\* answer could not be read).
NoOutcome == [kind |-> "none", cls |-> "", msg |-> "", cause |-> "", value |-> None]
Returned(v) == [kind |-> "return", cls |-> "", msg |-> "", cause |-> "", value |-> v]
Raised(cls, msg, cause) ==
    [kind |-> "raise", cls |-> cls, msg |-> msg, cause |-> cause, value |-> None]

\* dict.get(key, default)
DictGet(d, key, default) ==
    IF \E j \in 1..Len(d.pairs) : d.pairs[j].k = PyStr(key)
    THEN d.pairs[CHOOSE j \in 1..Len(d.pairs) : d.pairs[j].k = PyStr(key)].v
    ELSE default

\* sep.join(parts)
RECURSIVE Join(_, _)
Join(parts, sep) ==
    IF parts = <<>> THEN ""
    ELSE Head(parts) \o (IF Len(parts) > 1 THEN sep ELSE "") \o Join(Tail(parts), sep)

\* f"{e.get('field', '')}: {e.get('message', '')}"
ErrorMessage(e) ==
    py_str(DictGet(e, "field", PyStr(""))) \o ": "
    \o py_str(DictGet(e, "message", PyStr("")))

\* InterpretResponse without the user-errors check: the payload is returned as it is
InterpretResponse_IgnoresUserErrors(resp, failed_text, wrap_text) ==
    IF resp.kind = "fault"
    THEN Raised("Exception", wrap_text \o resp.text, "transport")
    ELSE LET update_result == DictGet(resp.data, "productUpdate", PyDict(<<>>)) IN
         IF update_result.t # "dict"
         THEN Raised("Exception",
                     wrap_text \o "'NoneType' object has no attribute 'get'",
                     "transport")
         ELSE Returned(update_result)

\* The try block around graphql_request, shared by both writers: the request's
\* own exception, the exception raised for user errors and any error of reading the
\* answer are all caught by "except Exception" and raised again as Exception.
InterpretResponse(resp, failed_text, wrap_text) ==
    IF resp.kind = "fault"
    THEN Raised("Exception", wrap_text \o resp.text, "transport")
    ELSE LET update_result == DictGet(resp.data, "productUpdate", PyDict(<<>>)) IN
         IF update_result.t # "dict"
         THEN Raised("Exception",
                     wrap_text \o "'NoneType' object has no attribute 'get'",
                     "transport")
         ELSE LET user_errors == DictGet(update_result, "userErrors", PyList(<<>>))
                  error_messages ==
                      [i \in 1..Len(user_errors.items) |->
                          ErrorMessage(user_errors.items[i])]
              IN  IF py_bool(user_errors)
                  THEN Raised("Exception",
                              wrap_text \o failed_text \o Join(error_messages, "; "),
                              "rejected")
                  ELSE Returned(update_result)

(***************************************************************************)
(* SafeMetafieldWriter                                                     *)
(***************************************************************************)
\* get_cached_definition asking the shop on every call and storing what it gives
get_cached_definition_Refetches(cache, ck, answer) ==
    LET fetched == get_product_metafield_definition(answer)
        cache2 == IF fetched.present THEN [cache EXCEPT ![ck] = fetched] ELSE cache
    IN  [cache |-> cache2, definition |-> cache2[ck], looked |-> TRUE]

\* _get_cached_definition: on a cache miss ask the shop, store what it gave (if
\* anything), and answer from the cache
get_cached_definition(cache, ck, answer) ==
    LET miss == ~cache[ck].present
        fetched == get_product_metafield_definition(answer)
        cache2 == IF miss /\ fetched.present THEN [cache EXCEPT ![ck] = fetched]
                  ELSE cache
    IN  [cache |-> cache2, definition |-> cache2[ck], looked |-> miss]

\* ResolveWrite guessing a text type when nothing gives one
ResolveWrite_DefaultsToText(cache, namespace, key, metafield_type, force_type, defAns, exAns) ==
    LET g == IF force_type
             THEN [cache |-> cache, definition |-> NoDefinition, looked |-> FALSE]
             ELSE get_cached_definition(cache, cache_key(namespace, key), defAns)
        ex == IF ~force_type /\ ~g.definition.present
              THEN get_product_metafield(exAns) ELSE NoMetafield
        d1 == IF ex.present THEN ex.type ELSE metafield_type
        d2 == IF d1 = NoType THEN "single_line_text_field" ELSE d1
    IN  [cache |-> g.cache, definition |-> g.definition, existing |-> ex,
         looked |-> g.looked, queried |-> ~force_type /\ ~g.definition.present,
         type |-> d2]

\* ResolveWrite letting the caller's type win over the product's metafield
ResolveWrite_PrefersExplicit(cache, namespace, key, metafield_type, force_type, defAns, exAns) ==
    LET g == IF force_type
             THEN [cache |-> cache, definition |-> NoDefinition, looked |-> FALSE]
             ELSE get_cached_definition(cache, cache_key(namespace, key), defAns)
        ex == IF ~force_type /\ ~g.definition.present
              THEN get_product_metafield(exAns) ELSE NoMetafield
        d1 == IF metafield_type # NoType THEN metafield_type
              ELSE IF ex.present THEN ex.type ELSE NoType
    IN  [cache |-> g.cache, definition |-> g.definition, existing |-> ex,
         looked |-> g.looked, queried |-> ~force_type /\ ~g.definition.present,
         type |-> d1]

\* ResolveWrite giving up (no type) as soon as a lookup it makes fails
ResolveWrite_AbortsOnLookupFault(cache, namespace, key, metafield_type, force_type, defAns, exAns) ==
    LET g == IF force_type
             THEN [cache |-> cache, definition |-> NoDefinition, looked |-> FALSE]
             ELSE get_cached_definition(cache, cache_key(namespace, key), defAns)
        asked == ~force_type /\ ~g.definition.present
        ex == IF asked THEN get_product_metafield(exAns) ELSE NoMetafield
        d1 == IF ex.present THEN ex.type ELSE metafield_type
        d2 == IF d1 = NoType /\ metafield_type # NoType THEN metafield_type ELSE d1
        fault == \/ g.looked /\ defAns.kind = "fault"
                 \/ asked /\ exAns.kind = "fault"
    IN  [cache |-> g.cache, definition |-> g.definition, existing |-> ex,
         looked |-> g.looked, queried |-> asked,
         type |-> IF fault THEN NoType ELSE d2]

\* Step 1 of write_product_metafield.  type = NoType stands for the ValueError of
\* line 230.
ResolveWrite(cache, namespace, key, metafield_type, force_type, defAns, exAns) ==
    LET g == IF force_type
             THEN [cache |-> cache, definition |-> NoDefinition, looked |-> FALSE]
             ELSE get_cached_definition(cache, cache_key(namespace, key), defAns)
        ex == IF ~force_type /\ ~g.definition.present
              THEN get_product_metafield(exAns) ELSE NoMetafield
        d1 == IF ex.present THEN ex.type ELSE metafield_type
        d2 == IF d1 = NoType /\ metafield_type # NoType THEN metafield_type ELSE d1
    IN  [cache |-> g.cache, definition |-> g.definition, existing |-> ex,
         looked |-> g.looked, queried |-> ~force_type /\ ~g.definition.present,
         type |-> d2]

WriteMutation(product_id, namespace, key, type, value) ==
    [name |-> "productUpdateMetafield",
     id |-> product_id,
     metafields |-> <<[namespace |-> namespace, key |-> key,
                       type |-> type, value |-> value]>>,
     identifiers |-> <<[namespace |-> namespace, key |-> key]>>]

WriteValues == {PyInt(42), PyStr("yes"), PyStr("abc"), None}

WriteCall(namespace, key, value, metafield_type, force_type) ==
    /\ pc = "idle"
    /\ call' = [op |-> "write", product_id |-> "P1", namespace |-> namespace,
                key |-> key, value |-> value, metafield_type |-> metafield_type,
                force_type |-> force_type, fields |-> <<>>, auto |-> TRUE]
    /\ determined_type' = metafield_type
    /\ pc' = "resolve"
    /\ UNCHANGED <<definition_cache, definition, existing, transformed_value,
                   processed, idx, sent, response, outcome, lookups, prev, shop>>
    /\ UNCHANGED <<harnessVars, threadVars, limiterVars>>

WriteResolve ==
    /\ pc = "resolve"
    /\ call.op = "write"
    /\ \E defAns \in LookupAnswers, exAns \in LookupAnswers :
         \E r \in {ResolveWrite(definition_cache, call.namespace, call.key,
                                call.metafield_type, call.force_type, defAns, exAns)} :
             /\ definition_cache' = r.cache
             /\ definition' = r.definition
             /\ existing' = r.existing
             /\ lookups' = IF r.looked
                           THEN lookups \cup {cache_key(call.namespace, call.key)}
                           ELSE lookups
             /\ determined_type' = r.type
             /\ shop' = Shop(defAns, exAns, r.looked, r.queried)
             /\ IF r.type = NoType
                THEN /\ outcome' = Raised("ValueError",
                          "Cannot determine metafield type for " \o call.namespace
                          \o "." \o call.key \o ". Please provide metafield_type "
                          \o "or ensure definition exists.", "resolve")
                     /\ pc' = "done"
                ELSE /\ outcome' = outcome
                     /\ pc' = "transform"
    /\ UNCHANGED <<call, transformed_value, processed, idx, sent, response, prev>>
    /\ UNCHANGED <<harnessVars, threadVars, limiterVars>>

\* WriteTransform going on to the mutation whatever the transformer did
WriteTransform_SendsOnFailure ==
    /\ pc = "transform"
    /\ call.op = "write"
    /\ \E r \in {transform_value(call.value, determined_type)} :
         transformed_value' = r.s
    /\ pc' = "send"
    /\ UNCHANGED <<definition_cache, call, determined_type, definition, existing,
                   processed, idx, sent, response, outcome, lookups, prev, shop>>
    /\ UNCHANGED <<harnessVars, threadVars, limiterVars>>

\* Step 2: a ValueError of the transformer is raised again as ValueError with
\* context; any other exception passes through.
WriteTransform ==
    /\ pc = "transform"
    /\ call.op = "write"
    /\ \E r \in {transform_value(call.value, determined_type)} :
       IF r.exc = ""
       THEN /\ transformed_value' = r.s
            /\ pc' = "send"
            /\ outcome' = outcome
       ELSE /\ transformed_value' = transformed_value
            /\ pc' = "done"
            /\ outcome' = IF r.exc = "ValueError"
                          THEN Raised("ValueError",
                                 "Value transformation failed for " \o call.namespace
                                 \o "." \o call.key \o " (type: " \o determined_type
                                 \o "): ", "transform")
                          ELSE Raised(r.exc, "", "transform")
    /\ UNCHANGED <<definition_cache, call, determined_type, definition, existing,
                   processed, idx, sent, response, lookups, prev, shop>>
    /\ UNCHANGED <<harnessVars, threadVars, limiterVars>>

\* Step 3: the mutation is handed to graphql_request
WriteSend ==
    /\ pc = "send"
    /\ call.op = "write"
    /\ sent' = Append(sent, WriteMutation(call.product_id, call.namespace, call.key,
                                          determined_type, transformed_value))
    /\ pc' = "await"
    /\ UNCHANGED <<definition_cache, call, determined_type, definition, existing,
                   transformed_value, processed, idx, response, outcome, lookups,
                   prev, shop>>
    /\ UNCHANGED <<harnessVars, threadVars, limiterVars>>

WriteResponse ==
    /\ pc = "await"
    /\ call.op = "write"
    /\ \E resp \in Responses :
         /\ response' = resp
         /\ outcome' = InterpretResponse(resp, "Metafield write failed: ",
                          "Failed to write metafield " \o call.namespace \o "."
                          \o call.key \o " to product " \o call.product_id \o ": ")
    /\ pc' = "done"
    /\ UNCHANGED <<definition_cache, call, determined_type, definition, existing,
                   transformed_value, processed, idx, sent, lookups, prev, shop>>
    /\ UNCHANGED <<harnessVars, threadVars, limiterVars>>

(***************************************************************************)
(* BatchMetafieldWriter                                                    *)
(***************************************************************************)
MaxFields == 2

\* A field of the batch; "" stands for a namespace, key or type that is missing,
\* None or empty (the code tests all three by truthiness only).
Field(namespace, key, value, type) ==
    [namespace |-> namespace, key |-> key, value |-> value, type |-> type]

FieldChoices ==
    {Field("custom", "count", PyInt(42), "number_integer"),
     Field("custom", "flag", PyStr("yes"), NoType),
     Field("", "count", PyInt(42), "number_integer"),
     Field("custom", "", PyStr("yes"), "boolean"),
     Field("custom", "count", None, "number_integer"),
     Field("custom", "flag", PyStr("abc"), NoType)}

RECURSIVE SeqsUpTo(_, _)
SeqsUpTo(S, n) ==
    IF n = 0 THEN {<<>>}
    ELSE LET shorter == SeqsUpTo(S, n - 1) IN
         shorter \cup {Append(q, x) : q \in shorter, x \in S}

Batches == SeqsUpTo(FieldChoices, MaxFields)

\* Lines 53-64 of the loop body.  type = NoType stands for the ValueError of
\* line 64.
ResolveBatch(cache, product_id, m, auto_detect_types, defAns, exAns) ==
    LET detect == auto_detect_types /\ m.type = NoType
        g == IF detect
             THEN get_cached_definition(cache, cache_key(m.namespace, m.key), defAns)
             ELSE [cache |-> cache, definition |-> NoDefinition, looked |-> FALSE]
        ex == IF detect /\ ~g.definition.present
              THEN get_product_metafield(exAns) ELSE NoMetafield
        type == IF ~detect THEN m.type
                ELSE IF g.definition.present THEN g.definition.type
                ELSE IF ex.present THEN ex.type
                ELSE m.type
    IN  [cache |-> g.cache, definition |-> g.definition, existing |-> ex,
         looked |-> g.looked, queried |-> detect /\ ~g.definition.present,
         type |-> type]

\* BatchMutation with the identifiers of all fields but the first
BatchMutation_DropsIdentifier(product_id, processed_metafields) ==
    [name |-> "productUpdateMetafields",
     id |-> product_id,
     metafields |-> processed_metafields,
     identifiers |-> [i \in 1..(Len(processed_metafields) - 1) |->
                        [namespace |-> processed_metafields[i + 1].namespace,
                         key |-> processed_metafields[i + 1].key]]]

BatchMutation(product_id, processed_metafields) ==
    [name |-> "productUpdateMetafields",
     id |-> product_id,
     metafields |-> processed_metafields,
     identifiers |-> [i \in 1..Len(processed_metafields) |->
                        [namespace |-> processed_metafields[i].namespace,
                         key |-> processed_metafields[i].key]]]

BatchCall(metafields, auto_detect_types) ==
    /\ pc = "idle"
    /\ call' = [op |-> "batch", product_id |-> "P1", namespace |-> "", key |-> "",
                value |-> None, metafield_type |-> NoType, force_type |-> FALSE,
                fields |-> metafields, auto |-> auto_detect_types]
    /\ processed' = <<>>
    /\ idx' = 1
    /\ pc' = "loop"
    /\ UNCHANGED <<definition_cache, determined_type, definition, existing,
                   transformed_value, sent, response, outcome, lookups, prev, shop>>
    /\ UNCHANGED <<harnessVars, threadVars, limiterVars>>

\* One pass of the loop body
BatchField ==
    /\ pc = "loop"
    /\ call.op = "batch"
    /\ idx <= Len(call.fields)
    /\ LET m == call.fields[idx] IN
       IF m.namespace = "" \/ m.key = ""
       THEN /\ idx' = idx + 1
            /\ UNCHANGED <<definition_cache, determined_type, definition, existing,
                           transformed_value, processed, outcome, lookups, pc,
                           shop>>
       ELSE \E defAns \in LookupAnswers, exAns \in LookupAnswers :
              \E r \in {ResolveBatch(definition_cache, call.product_id, m, call.auto,
                                     defAns, exAns)} :
              \E tr \in {IF r.type = NoType THEN NotRun
                         ELSE transform_value(m.value, r.type)} :
                  /\ definition_cache' = r.cache
                  /\ definition' = r.definition
                  /\ existing' = r.existing
                  /\ lookups' = IF r.looked
                                THEN lookups \cup {cache_key(m.namespace, m.key)}
                                ELSE lookups
                  /\ determined_type' = r.type
                  /\ shop' = Shop(defAns, exAns, r.looked, r.queried)
                  /\ IF r.type = NoType
                     THEN /\ outcome' = Raised("ValueError",
                                 "Cannot determine type for " \o m.namespace \o "."
                                 \o m.key, "resolve")
                          /\ pc' = "done"
                          /\ UNCHANGED <<transformed_value, processed, idx>>
                     ELSE IF tr.exc # ""
                     THEN /\ outcome' = Raised(tr.exc, "", "transform")
                          /\ pc' = "done"
                          /\ UNCHANGED <<transformed_value, processed, idx>>
                     ELSE /\ transformed_value' = tr.s
                          /\ processed' = Append(processed,
                                 [namespace |-> m.namespace, key |-> m.key,
                                  type |-> r.type, value |-> tr.s])
                          /\ idx' = idx + 1
                          /\ UNCHANGED <<outcome, pc>>
    /\ UNCHANGED <<call, sent, response, prev>>
    /\ UNCHANGED <<harnessVars, threadVars, limiterVars>>

\* After the loop: the one mutation of the batch
BatchSend ==
    /\ pc = "loop"
    /\ call.op = "batch"
    /\ idx > Len(call.fields)
    /\ sent' = Append(sent, BatchMutation(call.product_id, processed))
    /\ pc' = "await"
    /\ UNCHANGED <<definition_cache, call, determined_type, definition, existing,
                   transformed_value, processed, idx, response, outcome, lookups,
                   prev, shop>>
    /\ UNCHANGED <<harnessVars, threadVars, limiterVars>>

BatchResponse ==
    /\ pc = "await"
    /\ call.op = "batch"
    /\ \E resp \in Responses :
         /\ response' = resp
         /\ outcome' = InterpretResponse(resp, "Batch metafield write failed: ",
                          "Failed to write batch metafields to product "
                          \o call.product_id \o ": ")
    /\ pc' = "done"
    /\ UNCHANGED <<definition_cache, call, determined_type, definition, existing,
                   transformed_value, processed, idx, sent, lookups, prev, shop>>
    /\ UNCHANGED <<harnessVars, threadVars, limiterVars>>

(***************************************************************************)
(* The caller                                                              *)
(***************************************************************************)
NoCall == [op |-> "none", product_id |-> "", namespace |-> "", key |-> "",
           value |-> None, metafield_type |-> NoType, force_type |-> FALSE,
           fields |-> <<>>, auto |-> TRUE]
NoPrev == [cause |-> "", cls |-> ""]

\* The call is over: the caller has the result or the exception; the writer keeps
\* its cache and nothing else.
Return ==
    /\ pc = "done"
    /\ pc' = "idle"
    /\ prev' = [cause |-> outcome.cause, cls |-> outcome.cls]
    /\ call' = NoCall
    /\ determined_type' = NoType
    /\ definition' = NoDefinition
    /\ existing' = NoMetafield
    /\ transformed_value' = ""
    /\ processed' = <<>>
    /\ idx' = 0
    /\ sent' = <<>>
    /\ response' = NoResponse
    /\ outcome' = NoOutcome
    /\ lookups' = {}
    /\ shop' = NoShop
    /\ UNCHANGED definition_cache
    /\ UNCHANGED <<harnessVars, threadVars, limiterVars>>

WriterInit ==
    /\ definition_cache = [ck \in CacheKeys |-> NoDefinition]
    /\ pc = "idle"
    /\ call = NoCall
    /\ determined_type = NoType
    /\ definition = NoDefinition
    /\ existing = NoMetafield
    /\ transformed_value = ""
    /\ processed = <<>>
    /\ idx = 0
    /\ sent = <<>>
    /\ response = NoResponse
    /\ outcome = NoOutcome
    /\ lookups = {}
    /\ prev = NoPrev
    /\ shop = NoShop

(***************************************************************************)
(* Transformer harness: transform a value, then transform the result again *)
(***************************************************************************)
MaxListLen == 2

ScalarValues ==
    {None, PyBool(TRUE), PyBool(FALSE), PyInt(0), PyInt(42), PyInt(-7),
     PyFloat(FALSE, 42, ""), PyFloat(FALSE, 42, "5"), PyFloat(TRUE, 0, "25"),
     PyInf(FALSE), PyNaN}
    \cup {PyStr(x) : x \in {"", "yes", "no", "TRUE", "false", "0", "42", "123.0",
                            "-0.5", "abc", "inf", "nan", "null", "true", "tag1",
                            "it's", "[1, 2]", "[\"yes\"]", "[]", "\"ab\"",
                            "{\"a\": 1}", "{\"a\": 1, \"a\": 2}", "[1,"}}

ItemValues == {PyInt(1), PyStr("tag1"), PyStr("yes"), None, PyFloat(FALSE, 1, "5")}

DictValues ==
    {PyDict(<<>>),
     PyDict(<<KV("a", PyInt(1))>>),
     PyDict(<<KV("value", PyFloat(FALSE, 1, "5")), KV("unit", PyStr("cm"))>>),
     PyDict(<<[k |-> PyInt(1), v |-> PyStr("a")], KV("1", PyStr("b"))>>),
     PyDict(<<KV("nested", PyDict(<<KV("data", PyList(<<PyInt(1), PyInt(2)>>))>>))>>)}

ListValues == {PyList(q) : q \in SeqsUpTo(ItemValues, MaxListLen)}

HarnessValues == ScalarValues \cup ListValues \cup DictValues

HarnessTypes ==
    {"single_line_text_field", "number_integer", "number_decimal", "boolean",
     "json", "dimension", "date", "list.single_line_text_field",
     "list.number_integer", "list.number_decimal", "list.boolean", "list.json"}

HarnessInit ==
    /\ tv \in HarnessValues
    /\ tt \in HarnessTypes
    /\ tr1 = NotRun
    /\ tr2 = NotRun

HarnessIdle ==
    /\ tv = None
    /\ tt = NoType
    /\ tr1 = NotRun
    /\ tr2 = NotRun

TransformOnce ==
    /\ tr1 = NotRun
    /\ tr1' = transform_value(tv, tt)
    /\ UNCHANGED <<tv, tt, tr2>>
    /\ UNCHANGED <<writerVars, threadVars, limiterVars>>

\* The result of a transform, a string, transformed again under the same type
TransformAgain ==
    /\ tr1.exc = ""
    /\ tr2 = NotRun
    /\ tr2' = transform_value(PyStr(tr1.s), tt)
    /\ UNCHANGED <<tv, tt, tr1>>
    /\ UNCHANGED <<writerVars, threadVars, limiterVars>>

(***************************************************************************)
(* Threads sharing one writer: _get_cached_definition statement by         *)
(* statement.  The method takes no lock; the definition query is a network *)
(* request, during which other threads run.                                *)
(***************************************************************************)
MaxThreads == 3
Threads == 1..MaxThreads

callVars == <<pc, call, determined_type, definition, existing, transformed_value,
              processed, idx, sent, response, outcome, lookups, prev, shop>>

ThreadsInit ==
    /\ tpc = [t \in Threads |-> "idle"]
    /\ tkey = [t \in Threads |-> ""]
    /\ tdef = [t \in Threads |-> NoDefinition]

\* Line 177: the call is made and the cache key built
CacheEnter(t, namespace, key) ==
    /\ tpc[t] = "idle"
    /\ tkey' = [tkey EXCEPT ![t] = cache_key(namespace, key)]
    /\ tdef' = [tdef EXCEPT ![t] = NoDefinition]
    /\ tpc' = [tpc EXCEPT ![t] = "check"]
    /\ UNCHANGED <<definition_cache, callVars, harnessVars, limiterVars>>

\* Line 179: if cache_key not in self._definition_cache
CacheCheck(t) ==
    /\ tpc[t] = "check"
    /\ tpc' = [tpc EXCEPT ![t] = IF definition_cache[tkey[t]].present
                                  THEN "return" ELSE "fetch"]
    /\ UNCHANGED <<tkey, tdef, definition_cache, callVars, harnessVars, limiterVars>>

\* Line 180: definition = self.client.get_product_metafield_definition(...)
CacheFetch(t) ==
    /\ tpc[t] = "fetch"
    /\ \E answer \in LookupAnswers :
         tdef' = [tdef EXCEPT ![t] = get_product_metafield_definition(answer)]
    /\ tpc' = [tpc EXCEPT ![t] = "store"]
    /\ UNCHANGED <<tkey, definition_cache, callVars, harnessVars, limiterVars>>

\* Lines 181-182: if definition: self._definition_cache[cache_key] = definition
CacheStore(t) ==
    /\ tpc[t] = "store"
    /\ definition_cache' = IF tdef[t].present
                            THEN [definition_cache EXCEPT ![tkey[t]] = tdef[t]]
                            ELSE definition_cache
    /\ tpc' = [tpc EXCEPT ![t] = "return"]
    /\ UNCHANGED <<tkey, tdef, callVars, harnessVars, limiterVars>>

\* Line 184: return self._definition_cache.get(cache_key)
CacheReturn(t) ==
    /\ tpc[t] = "return"
    /\ tdef' = [tdef EXCEPT ![t] = definition_cache[tkey[t]]]
    /\ tpc' = [tpc EXCEPT ![t] = "idle"]
    /\ UNCHANGED <<tkey, definition_cache, callVars, harnessVars, limiterVars>>

(***************************************************************************)
(* ShopifyRateLimiter.  Time is counted in ticks of 1/8 second; time.time() *)
(* is taken to be non-decreasing and time.sleep(d) to last at least d.      *)
(***************************************************************************)
OneSecond == 8
requests_per_second == 4
burst_size == 2
min_interval == OneSecond \div requests_per_second

\* Bounds: calls of wait_if_needed per thread, and how far the clock runs on
\* its own (a sleeping thread can always let it run to the end of its sleep)
MaxCalls == 2
MaxTime == 12

LimiterInit ==
    /\ clock = OneSecond
    /\ lock = 0
    /\ last_request_time = 0
    /\ request_times = <<>>
    /\ lpc = [t \in Threads |-> "idle"]
    /\ current_time = 0
    /\ wake = 0
    /\ lcalls = [t \in Threads |-> 0]
    /\ admitted = <<>>

\* min(self.request_times)
RECURSIVE SeqMin(_)
SeqMin(q) ==
    IF Len(q) = 1 THEN q[1]
    ELSE LET m == SeqMin(Tail(q)) IN IF q[1] < m THEN q[1] ELSE m

\* [t for t in self.request_times if current_time - t < 1.0]
Recent(q, now) == SelectSeq(q, LAMBDA x : now - x < OneSecond)

\* Time passes
Tick ==
    /\ \/ clock < MaxTime
       \/ \E t \in Threads : lpc[t] \in {"burst_sleep", "interval_sleep"} /\ clock < wake
    /\ clock' = clock + 1
    /\ UNCHANGED <<lock, last_request_time, request_times, lpc, current_time, wake,
                   lcalls, admitted>>
    /\ UNCHANGED <<writerVars, harnessVars, threadVars>>

\* A thread calls wait_if_needed and waits for the lock
LimiterCall(t) ==
    /\ lpc[t] = "idle"
    /\ lcalls[t] < MaxCalls
    /\ lcalls' = [lcalls EXCEPT ![t] = @ + 1]
    /\ lpc' = [lpc EXCEPT ![t] = "waiting"]
    /\ UNCHANGED <<clock, lock, last_request_time, request_times, current_time, wake,
                   admitted>>
    /\ UNCHANGED <<writerVars, harnessVars, threadVars>>

\* Lines 38-45: the lock is taken, the time read and old requests dropped
LimiterAcquire(t) ==
    /\ lpc[t] = "waiting"
    /\ lock = 0
    /\ lock' = t
    /\ current_time' = clock
    /\ request_times' = Recent(request_times, clock)
    /\ lpc' = [lpc EXCEPT ![t] = "burst"]
    /\ UNCHANGED <<clock, last_request_time, wake, lcalls, admitted>>
    /\ UNCHANGED <<writerVars, harnessVars, threadVars>>

\* Lines 48-53: at the burst limit, sleep until the oldest request is a second old
LimiterBurst(t) ==
    /\ lpc[t] = "burst"
    /\ IF Len(request_times) >= burst_size
          /\ OneSecond - (current_time - SeqMin(request_times)) > 0
       THEN /\ wake' = clock + (OneSecond - (current_time - SeqMin(request_times)))
            /\ lpc' = [lpc EXCEPT ![t] = "burst_sleep"]
       ELSE /\ wake' = wake
            /\ lpc' = [lpc EXCEPT ![t] = "interval"]
    /\ UNCHANGED <<clock, lock, last_request_time, request_times, current_time,
                   lcalls, admitted>>
    /\ UNCHANGED <<writerVars, harnessVars, threadVars>>

\* Line 54: the sleep is over; current_time = time.time()
LimiterBurstWake(t) ==
    /\ lpc[t] = "burst_sleep"
    /\ clock >= wake
    /\ current_time' = clock
    /\ lpc' = [lpc EXCEPT ![t] = "interval"]
    /\ UNCHANGED <<clock, lock, last_request_time, request_times, wake, lcalls,
                   admitted>>
    /\ UNCHANGED <<writerVars, harnessVars, threadVars>>

\* LimiterInterval going on without the sleep of line 60
LimiterInterval_NoSleep(t) ==
    /\ lpc[t] = "interval"
    /\ wake' = wake
    /\ lpc' = [lpc EXCEPT ![t] = "record"]
    /\ UNCHANGED <<clock, lock, last_request_time, request_times, current_time,
                   lcalls, admitted>>
    /\ UNCHANGED <<writerVars, harnessVars, threadVars>>

\* Lines 57-60: sleep for what is missing to min_interval since the last request
LimiterInterval(t) ==
    /\ lpc[t] = "interval"
    /\ IF current_time - last_request_time < min_interval
       THEN /\ wake' = clock + (min_interval - (current_time - last_request_time))
            /\ lpc' = [lpc EXCEPT ![t] = "interval_sleep"]
       ELSE /\ wake' = wake
            /\ lpc' = [lpc EXCEPT ![t] = "record"]
    /\ UNCHANGED <<clock, lock, last_request_time, request_times, current_time,
                   lcalls, admitted>>
    /\ UNCHANGED <<writerVars, harnessVars, threadVars>>

LimiterIntervalWake(t) ==
    /\ lpc[t] = "interval_sleep"
    /\ clock >= wake
    /\ lpc' = [lpc EXCEPT ![t] = "record"]
    /\ UNCHANGED <<clock, lock, last_request_time, request_times, current_time, wake,
                   lcalls, admitted>>
    /\ UNCHANGED <<writerVars, harnessVars, threadVars>>

\* Lines 63-64 and the end of the with block: the request is recorded, the lock
\* released and the call returns
LimiterRecord(t) ==
    /\ lpc[t] = "record"
    /\ last_request_time' = clock
    /\ request_times' = Append(request_times, clock)
    /\ admitted' = Append(admitted, clock)
    /\ lock' = 0
    /\ lpc' = [lpc EXCEPT ![t] = "idle"]
    /\ UNCHANGED <<clock, current_time, wake, lcalls>>
    /\ UNCHANGED <<writerVars, harnessVars, threadVars>>

(***************************************************************************)
(* Specifications                                                          *)
(***************************************************************************)
Init == WriterInit /\ HarnessIdle /\ ThreadsInit /\ LimiterInit

Next ==
    \/ \E n \in Namespaces, k \in KeyNames, v \in WriteValues,
         t \in WriterTypes \cup {NoType}, f \in BOOLEAN : WriteCall(n, k, v, t, f)
    \/ WriteResolve
    \/ WriteTransform
    \/ WriteSend
    \/ WriteResponse
    \/ \E b \in Batches, a \in BOOLEAN : BatchCall(b, a)
    \/ BatchField
    \/ BatchSend
    \/ BatchResponse
    \/ Return

Spec == Init /\ [][Next]_vars

TransformInit == WriterInit /\ HarnessInit /\ ThreadsInit /\ LimiterInit

TransformNext == TransformOnce \/ TransformAgain

SpecTransform == TransformInit /\ [][TransformNext]_vars

\* Several threads in _get_cached_definition of one writer
ThreadsNext ==
    \E t \in Threads :
        \/ \E n \in Namespaces, k \in KeyNames : CacheEnter(t, n, k)
        \/ CacheCheck(t)
        \/ CacheFetch(t)
        \/ CacheStore(t)
        \/ CacheReturn(t)

SpecThreads == Init /\ [][ThreadsNext]_vars

\* Several threads calling wait_if_needed of one limiter
LimiterStep(t) ==
    \/ LimiterAcquire(t)
    \/ LimiterBurst(t)
    \/ LimiterBurstWake(t)
    \/ LimiterInterval(t)
    \/ LimiterIntervalWake(t)
    \/ LimiterRecord(t)

LimiterNext == Tick \/ \E t \in Threads : LimiterCall(t) \/ LimiterStep(t)

\* Time passes, and a thread that can take its next step takes it
SpecLimiter ==
    /\ Init
    /\ [][LimiterNext]_vars
    /\ WF_vars(Tick)
    /\ \A t \in Threads : WF_vars(LimiterStep(t))

(***************************************************************************)
(* Properties                                                              *)
(***************************************************************************)
\* The user errors a mutation response carries (none when it has no readable
\* productUpdate payload or no userErrors entry)
ResponseReadable(resp) ==
    resp.kind = "data" /\ DictGet(resp.data, "productUpdate", PyDict(<<>>)).t = "dict"
ResponsePayload(resp) == DictGet(resp.data, "productUpdate", PyDict(<<>>))
ResponseUserErrors(resp) ==
    IF ResponseReadable(resp)
    THEN DictGet(ResponsePayload(resp), "userErrors", PyList(<<>>)).items
    ELSE <<>>

\* The text of one user error: its field and its message ("" for a missing one)
UserErrorText(e) ==
    py_str(DictGet(e, "field", PyStr(""))) \o ": "
    \o py_str(DictGet(e, "message", PyStr("")))

\* msg, from index from on, is exactly the texts of errs in their order, "; " between
RECURSIVE ListsExactly(_, _, _)
ListsExactly(msg, errs, from) ==
    IF errs = <<>> THEN from = Len(msg) + 1
    ELSE LET text == UserErrorText(Head(errs))
             next == from + Len(text)
         IN  /\ next - 1 <= Len(msg)
             /\ SubSeq(msg, from, next - 1) = text
             /\ IF Len(errs) = 1 THEN next = Len(msg) + 1
                ELSE /\ next + 1 <= Len(msg)
                     /\ SubSeq(msg, next, next + 1) = "; "
                     /\ ListsExactly(msg, Tail(errs), next + 2)

WriteResolved == call.op = "write" /\ pc \in {"transform", "send", "await", "done"}

\* C1: Resolver precedence in write_product_metafield.  With force_type False and
\* a definition of type A available (cached or returned by the lookup), the write
\* uses A, whether the caller gave another type or none; with force_type True
\* and a type B given, the write uses B.
C1_ResolverPrecedence ==
    WriteResolved =>
        /\ (~call.force_type /\ definition.present) =>
               (determined_type = definition.type /\ outcome.cause # "resolve")
        /\ (call.force_type /\ call.metafield_type # NoType) =>
               determined_type = call.metafield_type

\* C2: Single-flight write protocol.  In a call of write_product_metafield the
\* mutation is handed to the transport at most once, not before type resolution
\* and value transformation are both over and have both succeeded (what is sent
\* is the resolved type and the transformer's result for the call's value), and
\* a call that failed in resolution or transformation has sent nothing.
C2_SingleFlight ==
    call.op = "write" =>
        /\ Len(sent) <= 1
        /\ pc \in {"resolve", "transform", "send"} => sent = <<>>
        /\ outcome.cause \in {"resolve", "transform"} => sent = <<>>
        /\ sent # <<>> =>
              /\ determined_type # NoType
              /\ transform_value(call.value, determined_type) = OkS(transformed_value)
              /\ sent[1].metafields =
                    <<[namespace |-> call.namespace, key |-> call.key,
                       type |-> determined_type, value |-> transformed_value]>>

C2_Witness ==
    /\ call.op = "write"
    /\ pc = "done"
    /\ Len(sent) = 1
    /\ outcome.kind = "return"
    /\ sent[1].metafields[1].value = "42"

\* C3: Write outcome classification.  A response with a non-empty userErrors
\* sequence makes write_product_metafield fail with RemoteRejected, a failure kind
\* distinct from TransportFailure, InvalidValue and TypeUndeterminable (no call
\* that failed for one of those causes raised the same exception class), carrying
\* the (field, message) pairs in the response's order; with userErrors empty or
\* absent the productUpdate payload is returned.
C3_OutcomeClassification ==
    (call.op = "write" /\ pc = "done" /\ ResponseReadable(response)) =>
        IF ResponseUserErrors(response) # <<>>
        THEN /\ outcome.kind = "raise"
             /\ \E from \in 1..(Len(outcome.msg) + 1) :
                    ListsExactly(outcome.msg, ResponseUserErrors(response), from)
             /\ ~(/\ prev.cause \in {"transport", "transform", "resolve"}
                  /\ prev.cls = outcome.cls)
        ELSE outcome = Returned(ResponsePayload(response))

\* C4: Re-encoding idempotence.  Whenever transform_value(v, t) succeeds with s,
\* transform_value(s, t) succeeds too and returns exactly s.
C4_ReencodingIdempotent ==
    (tr1.exc = "" /\ tr2 # NotRun) => tr2 = OkS(tr1.s)

\* C5: Boolean normalization.  transform_value(v, "boolean") returns "true" or
\* "false" for every v: a bool gives its lowercase name, a string that is
\* true/false in any case gives that word lowercased, any other value (string or
\* not) gives the word of its truthiness.
C5_BooleanNormalization ==
    (tt = "boolean" /\ tr1 # NotRun) =>
        tr1 = OkS(IF tv.t = "bool" THEN (IF tv.b THEN "true" ELSE "false")
                  ELSE IF tv.t = "str" /\ Lower(tv.s) \in {"true", "false"}
                       THEN Lower(tv.s)
                  ELSE IF py_bool(tv) THEN "true" ELSE "false")

\* A list type's base type, and the values C6 calls bare scalars: numbers,
\* booleans, and strings that are not the JSON text of an array
BaseType(list_type) == SubSeq(list_type, 6, Len(list_type))
IsListType(type) == StartsWith(type, "list.")
BareScalar(v) ==
    \/ v.t \in {"int", "float", "bool"}
    \/ v.t = "str" /\ ~(json_loads(v.s).exc = "" /\ json_loads(v.s).val.t = "list")

\* The JSON array string of the base-type transforms of items, when all succeed
RECURSIVE ItemTransforms(_, _)
ItemTransforms(items, base) ==
    IF items = <<>> THEN <<>>
    ELSE <<PyStr(transform_value(Head(items), base).s)>>
         \o ItemTransforms(Tail(items), base)

AllTransform(items, base) ==
    \A i \in 1..Len(items) : transform_value(items[i], base).exc = ""

\* C6: List coercion.  Under a list type a bare scalar x (also a string such as
\* "42" that is valid JSON but no array) yields the one-element array of x's
\* base-type transform; a sequence of n items yields the n-element array of the
\* items' base-type transforms, the empty sequence "[]".
C6_ListCoercion ==
    (IsListType(tt) /\ tr1 # NotRun) =>
        /\ (BareScalar(tv) /\ AllTransform(<<tv>>, BaseType(tt))) =>
               tr1 = OkS(json_dumps(PyList(ItemTransforms(<<tv>>, BaseType(tt)))))
        /\ (tv.t = "list" /\ AllTransform(tv.items, BaseType(tt))) =>
               tr1 = OkS(json_dumps(PyList(ItemTransforms(tv.items, BaseType(tt)))))
        /\ tv = PyList(<<>>) => tr1 = OkS("[]")

\* C7: Transformer failure kind.  transform_value returns a string or fails with
\* InvalidValue (ValueError); no other exception escapes.
C7_OnlyInvalidValue ==
    tr1 # NotRun => tr1.exc \in {"", "ValueError"}

HasNames(m) == m.namespace # "" /\ m.key # ""
Kept(fields) == SelectSeq(fields, HasNames)

\* C8: Batch fail-fast.  Fields are processed in input order; the first field
\* whose type cannot be resolved or whose value cannot be transformed aborts the
\* call with TypeUndeterminable/InvalidValue (both ValueError), and then no
\* mutation has been sent: the fields before it are not submitted.
C8_BatchFailFast ==
    (call.op = "batch" /\ pc = "done" /\ outcome.cause \in {"resolve", "transform"}) =>
        /\ outcome.kind = "raise"
        /\ outcome.cls = "ValueError"
        /\ sent = <<>>
        /\ idx <= Len(call.fields)
        /\ Len(processed) = Len(Kept(SubSeq(call.fields, 1, idx - 1)))

\* C9: Batch all-or-nothing on rejection.  When every field was resolved and
\* transformed and the mutation's response carries a non-empty userErrors
\* sequence, the batch call fails as a whole, its exception listing exactly those
\* user errors in order; no success result is returned.
C9_BatchRejected ==
    (call.op = "batch" /\ pc = "done" /\ ResponseUserErrors(response) # <<>>) =>
        /\ Len(processed) = Len(Kept(call.fields))
        /\ outcome.kind = "raise"
        /\ outcome.cause = "rejected"
        /\ outcome.value = None
        /\ \E from \in 1..(Len(outcome.msg) + 1) :
               /\ SubSeq(outcome.msg, 1, from - 1) =
                      "Failed to write batch metafields to product "
                      \o call.product_id \o ": Batch metafield write failed: "
               /\ ListsExactly(outcome.msg, ResponseUserErrors(response), from)

C9_Witness ==
    /\ call.op = "batch"
    /\ pc = "done"
    /\ Len(processed) = 2
    /\ Len(ResponseUserErrors(response)) = 2
    /\ outcome.kind = "raise"

\* C10: Batch composition.  A batch call whose processing did not fail sends
\* exactly one mutation; its metafields are the input fields that have a
\* namespace and a key, in input order, each with its type (the given one when
\* one was given) and the transformer's result for its value under that type; its
\* identifiers have the same length and the same (namespace, key) at each place.
C10_BatchComposition ==
    (/\ call.op = "batch"
     /\ pc \in {"await", "done"}
     /\ outcome.cause \notin {"resolve", "transform"}) =>
        /\ Len(sent) = 1
        /\ Len(sent[1].metafields) = Len(Kept(call.fields))
        /\ Len(sent[1].identifiers) = Len(Kept(call.fields))
        /\ \A i \in 1..Len(Kept(call.fields)) :
              /\ sent[1].metafields[i].namespace = Kept(call.fields)[i].namespace
              /\ sent[1].metafields[i].key = Kept(call.fields)[i].key
              /\ sent[1].metafields[i].type # NoType
              /\ Kept(call.fields)[i].type # NoType =>
                     sent[1].metafields[i].type = Kept(call.fields)[i].type
              /\ transform_value(Kept(call.fields)[i].value,
                                 sent[1].metafields[i].type)
                     = OkS(sent[1].metafields[i].value)
              /\ sent[1].identifiers[i] =
                     [namespace |-> Kept(call.fields)[i].namespace,
                      key |-> Kept(call.fields)[i].key]

C10_Witness ==
    /\ call.op = "batch"
    /\ pc = "await"
    /\ Len(call.fields) = 2
    /\ Len(sent) = 1
    /\ Len(sent[1].metafields) = 1
    /\ sent[1].metafields[1].key = "count"
    /\ sent[1].metafields[1].value = "42"

\* text occurs in msg
Contains(msg, text) == Find(msg, text, 1) # 0

WriteKey == cache_key(call.namespace, call.key)

\* C11: Resolver exhaustion.  With no registry entry for (namespace, key), the
\* definition lookup absent, the existing-value lookup absent and no explicit
\* type, write_product_metafield fails with TypeUndeterminable (ValueError) whose
\* message names the namespace and the key, and nothing is sent.
C11_ResolverExhaustion ==
    (/\ WriteResolved
     /\ call.metafield_type = NoType
     /\ ~definition_cache[WriteKey].present
     /\ shop.definition.kind = "absent"
     /\ shop.metafield.kind = "absent") =>
        /\ pc = "done"
        /\ outcome.kind = "raise"
        /\ outcome.cls = "ValueError"
        /\ outcome.cause = "resolve"
        /\ Contains(outcome.msg, call.namespace \o "." \o call.key)
        /\ sent = <<>>

C11_Witness ==
    /\ call.op = "write"
    /\ pc = "done"
    /\ ~call.force_type
    /\ call.metafield_type = NoType
    /\ shop.asked_definition /\ shop.definition.kind = "absent"
    /\ shop.asked_metafield /\ shop.metafield.kind = "absent"
    /\ outcome.cause = "resolve"

\* C12: Instance-level type beats caller override.  With force_type False, no
\* registry entry and no definition, an existing metafield of type T on the
\* product makes the write use T whatever type the caller gave; the caller's type
\* is used when the existing-value lookup returns absent too.
C12_InstanceTypeWins ==
    (/\ WriteResolved
     /\ ~call.force_type
     /\ shop.asked_definition
     /\ shop.definition.kind = "absent") =>
        /\ shop.asked_metafield
        /\ shop.metafield.kind = "found" =>
               (determined_type = shop.metafield.type /\ outcome.cause # "resolve")
        /\ (shop.metafield.kind = "absent" /\ call.metafield_type # NoType) =>
               determined_type = call.metafield_type
        /\ (determined_type = call.metafield_type /\ shop.metafield.kind = "found") =>
               shop.metafield.type = call.metafield_type

C12_Witness ==
    /\ call.op = "write"
    /\ pc = "await"
    /\ ~call.force_type
    /\ call.metafield_type = "boolean"
    /\ shop.asked_definition /\ shop.definition.kind = "absent"
    /\ shop.metafield = [kind |-> "found", type |-> "number_integer"]
    /\ sent[1].metafields[1].type = "number_integer"

\* C13: force_type without an explicit type.  A write with force_type True and
\* no explicit type resolves exactly as one with force_type False would against
\* the same registry and shop, and fails with TypeUndeterminable only if the
\* registry, the definition lookup and the existing-value lookup are all absent.
C13_ForceWithoutType ==
    (WriteResolved /\ call.force_type /\ call.metafield_type = NoType) =>
        /\ determined_type =
               ResolveWrite(definition_cache, call.namespace, call.key, NoType, FALSE,
                            shop.definition, shop.metafield).type
        /\ outcome.cause = "resolve" =>
               /\ ~definition_cache[WriteKey].present
               /\ shop.definition.kind # "found"
               /\ shop.metafield.kind # "found"

AsAbsent(answer) ==
    IF answer.kind = "fault" THEN [kind |-> "absent", type |-> NoType] ELSE answer

\* C14: Best-effort resolution.  A failure of the definition lookup or of the
\* existing-value lookup counts as an absent result: resolution goes on to the
\* next step and ends as it would have with absent answers, so the write is not
\* aborted by it; a failure of the mutation request always fails the write.
C14_BestEffortResolution ==
    /\ (WriteResolved /\ ~call.force_type) =>
          /\ (shop.asked_definition /\ shop.definition.kind = "fault") =>
                 (definition = NoDefinition /\ shop.asked_metafield)
          /\ (shop.asked_metafield /\ shop.metafield.kind = "fault") =>
                 (existing = NoMetafield /\ determined_type = call.metafield_type)
          /\ determined_type =
                 ResolveWrite(definition_cache, call.namespace, call.key,
                              call.metafield_type, FALSE, AsAbsent(shop.definition),
                              AsAbsent(shop.metafield)).type
          /\ outcome.cause = "resolve" => call.metafield_type = NoType
    /\ (call.op = "write" /\ pc = "done" /\ response.kind = "fault") =>
          (outcome.kind = "raise" /\ outcome.cause = "transport")

C14_Witness ==
    /\ call.op = "write"
    /\ pc = "done"
    /\ shop.asked_definition /\ shop.definition.kind = "fault"
    /\ shop.asked_metafield /\ shop.metafield.kind = "fault"
    /\ outcome.kind = "return"
    /\ Len(sent) = 1

\* The step in which a call retrieves the definition of cache key ck
RetrievesDefinition(ck) ==
    \/ /\ pc = "resolve" /\ call.op = "write" /\ ~call.force_type
       /\ ck = WriteKey
    \/ /\ pc = "loop" /\ call.op = "batch" /\ idx <= Len(call.fields)
       /\ call.fields[idx].namespace # "" /\ call.fields[idx].key # ""
       /\ call.auto /\ call.fields[idx].type = NoType
       /\ ck = cache_key(call.fields[idx].namespace, call.fields[idx].key)

\* C15: Registry stability.  Over any sequence of calls on one writer a stored
\* definition is never removed or replaced; every later retrieval for its key
\* returns it, and the shop is not asked for that key's definition again, whatever
\* the shop would answer by then.
C15_RegistryStable ==
    [][\A ck \in CacheKeys :
          definition_cache[ck].present =>
              /\ definition_cache'[ck] = definition_cache[ck]
              /\ RetrievesDefinition(ck) =>
                     (definition' = definition_cache[ck] /\ ~shop'.asked_definition)]_vars

C15_Witness ==
    /\ call.op = "write"
    /\ pc = "transform"
    /\ ~call.force_type
    /\ ~shop.asked_definition
    /\ definition = Def("number_integer")
    /\ definition_cache[WriteKey] = Def("number_integer")
    /\ shop.definition = [kind |-> "found", type |-> "boolean"]

\* Between the cache-miss check and the insert
InCheckThenInsert(t) == tpc[t] \in {"fetch", "store"}

\* C16: Registry mutual exclusion.  With several threads in the writer for the
\* same uncached key, no two of them are at once between the cache-miss check and
\* the insert for that key, and an entry once written is never overwritten by a
\* different definition that a racing thread fetched.
C16_RegistryMutex ==
    /\ [](\A t1, t2 \in Threads :
            (t1 # t2 /\ tkey[t1] = tkey[t2] /\ InCheckThenInsert(t1))
                => ~InCheckThenInsert(t2))
    /\ [][\A ck \in CacheKeys :
            definition_cache[ck].present =>
                definition_cache'[ck] = definition_cache[ck]]_vars

\* The field a batch call has just resolved, and the step that resolves it
BatchResolves ==
    /\ pc = "loop" /\ call.op = "batch" /\ idx <= Len(call.fields)
    /\ call.fields[idx].namespace # "" /\ call.fields[idx].key # ""

\* C17: Batch and single-field writes resolve types alike.  For the same
\* namespace, key, explicit type, registry and shop, the type the batch writer
\* resolves for a field is the type write_product_metafield with force_type False
\* resolves, and one fails with TypeUndeterminable exactly when the other does.
C17_BatchResolvesAsWrite ==
    [][(BatchResolves /\ call.auto) =>
          determined_type' =
              ResolveWrite(definition_cache, call.fields[idx].namespace,
                           call.fields[idx].key, call.fields[idx].type, FALSE,
                           shop'.definition, shop'.metafield).type]_vars

\* Admissions recorded in the second that starts with the i-th admission
InWindow(i) ==
    {j \in 1..Len(admitted) :
        admitted[i] <= admitted[j] /\ admitted[j] - admitted[i] < OneSecond}

Holding(t) == lpc[t] \notin {"idle", "waiting"}

LimiterSafe ==
    /\ \A t \in Threads : Holding(t) => lock = t
    /\ \A i \in 1..(Len(admitted) - 1) : admitted[i + 1] - admitted[i] >= min_interval
    /\ \A i \in 1..Len(admitted) : Cardinality(InWindow(i)) <= burst_size

\* C18: Rate limiter admission.  Under any interleaving of threads calling
\* wait_if_needed, one thread at a time decides its admission (it holds the
\* lock), consecutive admissions are recorded at least min_interval apart, at most
\* burst_size admissions are recorded within any second (a window that starts
\* with an admission and ends before one second has passed), and every call
\* returns.
C18_LimiterAdmission ==
    /\ []LimiterSafe
    /\ \A t \in Threads : (lpc[t] = "waiting") ~> (lpc[t] = "idle")

C18_Witness ==
    \E t1, t2 \in Threads :
        /\ lpc[t1] = "burst_sleep"
        /\ lpc[t2] = "waiting"
        /\ Len(admitted) >= burst_size
        /\ clock < wake

=============================================================================
